---- MODULE Spec2Model ----
(***************************************************************************)
(* Model of src/src/commands/copilot-command.ts: the CopilotCommand        *)
(* adapter (schema, constructor, toRulesyncCommand, fromRulesyncCommand,   *)
(* fromFile, isTargetedByRulesyncCommand).                                 *)
(*                                                                         *)
(* JavaScript values are tagged records [t, v]; an object is a function    *)
(* from the keys it has to values, so that a key that is absent and a key  *)
(* that holds undefined are different objects.  File names, paths and      *)
(* bodies are sequences of characters, so that the regular-expression      *)
(* rewrites, trim and basename work on characters.                         *)
(***************************************************************************)
EXTENDS Integers, Sequences, FiniteSets, TLC

VARIABLES req, docs, origin, validated, ret

vars == <<req, docs, origin, validated, ret>>

(***************************************************************************)
(* Bounds of the model.                                                    *)
(***************************************************************************)
\* documents kept in one run: the first one and those converted from it
MaxDocs == 3
\* pieces ("a", ".md", ".prompt.md") concatenated into a file name
MaxPieces == 2
\* characters of a file's raw body
MaxBodyLen == 3

(***************************************************************************)
(* JavaScript values.                                                      *)
(***************************************************************************)
Str(s) == [t |-> "string", v |-> s]
Num == [t |-> "number", v |-> "123"]
Undefined == [t |-> "undefined", v |-> ""]
Arr(a) == [t |-> "array", v |-> a]
Obj(o) == [t |-> "object", v |-> o]

EmptyObject == [k \in {} |-> Undefined]

\* o[k] in JavaScript: undefined when the key is absent
Get(o, k) == IF k \in DOMAIN o THEN o[k] ELSE Undefined

\* o?.k on a value that may be undefined
OptGet(x, k) == IF x.t = "object" THEN Get(x.v, k) ELSE Undefined

IsString(x) == x.t = "string"

\* the truthiness `x && ...` tests
Truthy(x) ==
    CASE x.t = "undefined" -> FALSE
      [] x.t = "string" -> x.v # ""
      [] x.t = "number" -> x.v # "0"
      [] OTHER -> TRUE

\* the objects with at most the key k, holding one of vals
OptField(k, vals) == {EmptyObject} \cup {k :> x : x \in vals}

(***************************************************************************)
(* Characters.                                                             *)
(***************************************************************************)
DotMd == <<".", "m", "d">>
DotPromptMd == <<".", "p", "r", "o", "m", "p", "t", ".", "m", "d">>
GithubPrompts ==
    <<".", "g", "i", "t", "h", "u", "b", "/", "p", "r", "o", "m", "p", "t", "s">>
RulesyncCommands ==
    <<".", "r", "u", "l", "e", "s", "y", "n", "c", "/",
      "c", "o", "m", "m", "a", "n", "d", "s">>
Dot == <<".">>
WhiteSpace == {" ", "\n", "\t", "\r"}

EndsWith(s, suf) ==
    /\ Len(suf) <= Len(s)
    /\ SubSeq(s, Len(s) - Len(suf) + 1, Len(s)) = suf

\* s.replace(/pat$/, rep) for a literal pattern: the leftmost position at
\* which pat matches and the match ends the string
ReplaceAtEnd(s, pat, rep) ==
    LET hits == {i \in 1..Len(s) :
                    /\ i + Len(pat) - 1 = Len(s)
                    /\ SubSeq(s, i, i + Len(pat) - 1) = pat}
    IN IF hits = {} THEN s
       ELSE LET i == CHOOSE h \in hits : \A g \in hits : h <= g
            IN SubSeq(s, 1, i - 1) \o rep \o SubSeq(s, i + Len(pat), Len(s))

\* s.replace(/pat/, rep): the leftmost match anywhere in the string
ReplaceFirst(s, pat, rep) ==
    LET hits == {i \in 1..Len(s) :
                    /\ i + Len(pat) - 1 <= Len(s)
                    /\ SubSeq(s, i, i + Len(pat) - 1) = pat}
    IN IF hits = {} THEN s
       ELSE LET i == CHOOSE h \in hits : \A g \in hits : h <= g
            IN SubSeq(s, 1, i - 1) \o rep \o SubSeq(s, i + Len(pat), Len(s))

\* String.prototype.trim
RECURSIVE TrimStart(_)
TrimStart(s) ==
    IF s # <<>> /\ Head(s) \in WhiteSpace THEN TrimStart(Tail(s)) ELSE s

RECURSIVE TrimEnd(_)
TrimEnd(s) ==
    IF s # <<>> /\ s[Len(s)] \in WhiteSpace
    THEN TrimEnd(SubSeq(s, 1, Len(s) - 1))
    ELSE s

Trim(s) == TrimEnd(TrimStart(s))

\* the segments of a path between its "/" separators
RECURSIVE Segments(_)
Segments(s) ==
    IF \A i \in 1..Len(s) : s[i] # "/" THEN <<s>>
    ELSE LET i == CHOOSE h \in 1..Len(s) :
                      s[h] = "/" /\ \A g \in 1..(h - 1) : s[g] # "/"
         IN <<SubSeq(s, 1, i - 1)>> \o Segments(SubSeq(s, i + 1, Len(s)))

RECURSIVE Glue(_)
Glue(segs) ==
    IF segs = <<>> THEN <<>>
    ELSE IF Len(segs) = 1 THEN segs[1]
    ELSE segs[1] \o <<"/">> \o Glue(Tail(segs))

\* node:path join on relative paths without ".." segments: the parts
\* joined by "/" and normalized (empty and "." segments dropped)
join(parts) ==
    LET kept == SelectSeq(Segments(Glue(parts)),
                          LAMBDA g : g # <<>> /\ g # Dot)
    IN IF kept = <<>> THEN Dot ELSE Glue(kept)

\* node:path basename: what follows the last "/", trailing "/" ignored
basename(p) ==
    LET kept == SelectSeq(Segments(p), LAMBDA g : g # <<>>)
    IN IF kept = <<>> THEN <<>> ELSE kept[Len(kept)]

(***************************************************************************)
(* The copilot schema.                                                     *)
(***************************************************************************)
SchemaKeys == {"mode", "description", "model"}

\* a schema that rejects keys it does not name (z.strictObject)
CopilotCommandFrontmatterSchemaStrict(fm) ==
    /\ DOMAIN fm \subseteq {"mode", "description", "model"}
    /\ Get(fm, "mode") = Str("agent")
    /\ IsString(Get(fm, "description"))
    /\ \/ Get(fm, "model") = Undefined
       \/ IsString(Get(fm, "model"))

\* CopilotCommandFrontmatterSchema.safeParse(fm).success
CopilotCommandFrontmatterSchema(fm) ==
    /\ Get(fm, "mode") = Str("agent")
    /\ IsString(Get(fm, "description"))
    /\ \/ Get(fm, "model") = Undefined
       \/ IsString(Get(fm, "model"))

\* safeParse(fm).data: z.object keeps the keys of the schema only
SchemaData(fm) == [k \in (DOMAIN fm) \cap SchemaKeys |-> fm[k]]

(***************************************************************************)
(* Results of a call.                                                      *)
(***************************************************************************)
Ok(x) == [status |-> "ok", value |-> x]
Threw(msg, path) == [status |-> "throw", value |-> [message |-> msg, path |-> path]]

\* stringifyFrontmatter(body, frontmatter), kept as the pair it serializes
stringifyFrontmatter(body, frontmatter) ==
    [frontmatter |-> frontmatter, body |-> body]

getSettablePaths == [relativeDirPath |-> join(<<<<".", "g", "i", "t", "h", "u", "b">>,
                                                <<"p", "r", "o", "m", "p", "t", "s">>>>)]

(***************************************************************************)
(* Documents.                                                              *)
(***************************************************************************)
\* new RulesyncCommand({...}): the canonical document holding what it is
\* given (the class is outside this file)
RulesyncCommandConstructor(p) ==
    Ok([kind |-> "rulesync",
        frontmatter |-> p.frontmatter,
        body |-> p.body,
        baseDir |-> p.baseDir,
        relativeDirPath |-> p.relativeDirPath,
        relativeFilePath |-> p.relativeFilePath,
        fileContent |-> p.fileContent])

\* a constructor that never checks the schema
CopilotCommandConstructorNeverValidates(p) ==
    Ok([kind |-> "copilot",
        frontmatter |-> p.frontmatter,
        body |-> p.body,
        baseDir |-> p.baseDir,
        relativeDirPath |-> p.relativeDirPath,
        relativeFilePath |-> p.relativeFilePath,
        fileContent |-> stringifyFrontmatter(p.body, p.frontmatter)])

\* a constructor that checks the schema whatever the validate flag says
CopilotCommandConstructorAlwaysValidates(p) ==
    IF ~CopilotCommandFrontmatterSchema(p.frontmatter)
    THEN Threw("Invalid frontmatter", join(<<p.relativeDirPath, p.relativeFilePath>>))
    ELSE Ok([kind |-> "copilot",
             frontmatter |-> p.frontmatter,
             body |-> p.body,
             baseDir |-> p.baseDir,
             relativeDirPath |-> p.relativeDirPath,
             relativeFilePath |-> p.relativeFilePath,
             fileContent |-> stringifyFrontmatter(p.body, p.frontmatter)])

\* new CopilotCommand({frontmatter, body, ...rest})
CopilotCommandConstructor(p) ==
    IF p.validate /\ ~CopilotCommandFrontmatterSchema(p.frontmatter)
    THEN Threw("Invalid frontmatter", join(<<p.relativeDirPath, p.relativeFilePath>>))
    ELSE Ok([kind |-> "copilot",
             frontmatter |-> p.frontmatter,
             body |-> p.body,
             baseDir |-> p.baseDir,
             relativeDirPath |-> p.relativeDirPath,
             relativeFilePath |-> p.relativeFilePath,
             fileContent |-> stringifyFrontmatter(p.body, p.frontmatter)])

\* a rewrite that replaces the first ".prompt.md" wherever it stands
toRulesyncFilePathUnanchored(f) == ReplaceFirst(f, DotPromptMd, DotMd)

\* originalFilePath.replace(/\.prompt\.md$/, ".md")
toRulesyncFilePath(f) == ReplaceAtEnd(f, DotPromptMd, DotMd)

\* a rewrite that puts ".prompt" in the place of ".md"
toCopilotFilePathDropsMd(f) == ReplaceAtEnd(f, DotMd, <<".", "p", "r", "o", "m", "p", "t">>)

\* originalFilePath.replace(/\.md$/, ".prompt.md")
toCopilotFilePath(f) == ReplaceAtEnd(f, DotMd, DotPromptMd)

\* a conversion that targets this tool only
toRulesyncCommandTargetsCopilot(d) ==
    RulesyncCommandConstructor(
        [baseDir |-> Dot,
         frontmatter |->
             ("targets" :> Arr(<<"copilot">>))
             @@ ("description" :> Get(d.frontmatter, "description"))
             @@ (IF Truthy(Get(d.frontmatter, "model"))
                 THEN "copilot" :> Obj("model" :> Get(d.frontmatter, "model"))
                 ELSE EmptyObject),
         body |-> d.body,
         relativeDirPath |-> RulesyncCommands,
         relativeFilePath |-> toRulesyncFilePath(d.relativeFilePath),
         fileContent |-> d.fileContent,
         validate |-> TRUE])

\* CopilotCommand.toRulesyncCommand()
toRulesyncCommand(d) ==
    RulesyncCommandConstructor(
        [baseDir |-> Dot,
         frontmatter |->
             ("targets" :> Arr(<<"*">>))
             @@ ("description" :> Get(d.frontmatter, "description"))
             @@ (IF Truthy(Get(d.frontmatter, "model"))
                 THEN "copilot" :> Obj("model" :> Get(d.frontmatter, "model"))
                 ELSE EmptyObject),
         body |-> d.body,
         relativeDirPath |-> RulesyncCommands,
         relativeFilePath |-> toRulesyncFilePath(d.relativeFilePath),
         fileContent |-> d.fileContent,
         validate |-> TRUE])

\* a conversion that refuses a canonical document whose targets name
\* neither every tool nor this one
fromRulesyncCommandChecksTarget(p) ==
    LET rulesyncFrontmatter == p.rulesyncCommand.frontmatter
        targets == Get(rulesyncFrontmatter, "targets")
        copilotFrontmatter ==
            ("mode" :> Str("agent"))
            @@ ("description" :> Get(rulesyncFrontmatter, "description"))
            @@ ("model" :> OptGet(Get(rulesyncFrontmatter, "copilot"), "model"))
    IN IF /\ Truthy(targets)
          /\ \A i \in 1..Len(targets.v) : targets.v[i] \notin {"*", "copilot"}
       THEN Threw("not targeted", p.rulesyncCommand.relativeFilePath)
       ELSE CopilotCommandConstructor(
                [baseDir |-> p.baseDir,
                 frontmatter |-> copilotFrontmatter,
                 body |-> p.rulesyncCommand.body,
                 relativeDirPath |-> getSettablePaths.relativeDirPath,
                 relativeFilePath |-> toCopilotFilePath(p.rulesyncCommand.relativeFilePath),
                 validate |-> p.validate])

\* CopilotCommand.fromRulesyncCommand({baseDir, rulesyncCommand, validate})
fromRulesyncCommand(p) ==
    LET rulesyncFrontmatter == p.rulesyncCommand.frontmatter
        copilotFrontmatter ==
            ("mode" :> Str("agent"))
            @@ ("description" :> Get(rulesyncFrontmatter, "description"))
            @@ ("model" :> OptGet(Get(rulesyncFrontmatter, "copilot"), "model"))
    IN CopilotCommandConstructor(
           [baseDir |-> p.baseDir,
            frontmatter |-> copilotFrontmatter,
            body |-> p.rulesyncCommand.body,
            relativeDirPath |-> getSettablePaths.relativeDirPath,
            relativeFilePath |-> toCopilotFilePath(p.rulesyncCommand.relativeFilePath),
            validate |-> p.validate])

\* readFileContent(filePath) on a disk that holds at most one file
readFileContent(disk, filePath) ==
    IF disk.kind = "none" \/ disk.path # filePath
    THEN Threw("ENOENT", filePath)
    ELSE IF disk.kind = "unreadable"
    THEN Threw("EACCES", filePath)
    ELSE Ok(disk)

\* parseFrontmatter(fileContent): fails when the text has no frontmatter block
parseFrontmatter(text) ==
    IF text.kind = "plain"
    THEN Threw("no frontmatter block", <<>>)
    ELSE Ok([frontmatter |-> text.frontmatter, body |-> text.body])

\* a fromFile that leaves the schema check to the constructor's validate flag
fromFileTrustsConstructor(p, disk) ==
    LET filePath == join(<<p.baseDir, getSettablePaths.relativeDirPath, p.relativeFilePath>>)
        fileContent == readFileContent(disk, filePath)
        parsed == parseFrontmatter(fileContent.value)
    IN IF fileContent.status = "throw" THEN fileContent
       ELSE IF parsed.status = "throw" THEN parsed
       ELSE CopilotCommandConstructor(
                [baseDir |-> p.baseDir,
                 relativeDirPath |-> getSettablePaths.relativeDirPath,
                 relativeFilePath |-> basename(p.relativeFilePath),
                 frontmatter |-> parsed.value.frontmatter,
                 body |-> Trim(parsed.value.body),
                 validate |-> p.validate])

\* a fromFile that keeps the relative path and the body as they are
fromFileKeepsPathAndBody(p, disk) ==
    LET filePath == join(<<p.baseDir, getSettablePaths.relativeDirPath, p.relativeFilePath>>)
        fileContent == readFileContent(disk, filePath)
        parsed == parseFrontmatter(fileContent.value)
    IN IF fileContent.status = "throw" THEN fileContent
       ELSE IF parsed.status = "throw" THEN parsed
       ELSE IF ~CopilotCommandFrontmatterSchema(parsed.value.frontmatter)
       THEN Threw("Invalid frontmatter", filePath)
       ELSE CopilotCommandConstructor(
                [baseDir |-> p.baseDir,
                 relativeDirPath |-> getSettablePaths.relativeDirPath,
                 relativeFilePath |-> p.relativeFilePath,
                 frontmatter |-> SchemaData(parsed.value.frontmatter),
                 body |-> parsed.value.body,
                 validate |-> p.validate])

\* CopilotCommand.fromFile({baseDir, relativeFilePath, validate}), disk being
\* what the file system holds at the path it reads
fromFile(p, disk) ==
    LET filePath == join(<<p.baseDir, getSettablePaths.relativeDirPath, p.relativeFilePath>>)
        fileContent == readFileContent(disk, filePath)
        parsed == parseFrontmatter(fileContent.value)
    IN IF fileContent.status = "throw" THEN fileContent
       ELSE IF parsed.status = "throw" THEN parsed
       ELSE IF ~CopilotCommandFrontmatterSchema(parsed.value.frontmatter)
       THEN Threw("Invalid frontmatter", filePath)
       ELSE CopilotCommandConstructor(
                [baseDir |-> p.baseDir,
                 relativeDirPath |-> getSettablePaths.relativeDirPath,
                 relativeFilePath |-> basename(p.relativeFilePath),
                 frontmatter |-> SchemaData(parsed.value.frontmatter),
                 body |-> Trim(parsed.value.body),
                 validate |-> p.validate])

Null == [t |-> "null", v |-> ""]
Error(msg, path) == [t |-> "Error", v |-> [message |-> msg, path |-> path]]

\* a validate that reports success whatever the metadata is
validateAlwaysSucceeds(d) == [success |-> TRUE, error |-> Null]

\* CopilotCommand.validate()
validate(d) ==
    IF d.frontmatter = Undefined
    THEN [success |-> TRUE, error |-> Null]
    ELSE IF CopilotCommandFrontmatterSchema(d.frontmatter)
    THEN [success |-> TRUE, error |-> Null]
    ELSE [success |-> FALSE,
          error |-> Error("Invalid frontmatter",
                          join(<<d.relativeDirPath, d.relativeFilePath>>))]

\* CopilotCommand.getBody()
getBody(d) == d.body

\* CopilotCommand.getFrontmatter()
getFrontmatter(d) == d.frontmatter

\* ToolCommand.isTargetedByRulesyncCommandDefault({rulesyncCommand, toolTarget})
isTargetedByRulesyncCommandDefault(rulesyncCommand, toolTarget) ==
    LET targets == Get(rulesyncCommand.frontmatter, "targets")
    IN IF ~Truthy(targets) THEN TRUE
       ELSE IF \E i \in 1..Len(targets.v) : targets.v[i] = "*" THEN TRUE
       ELSE IF \E i \in 1..Len(targets.v) : targets.v[i] = toolTarget THEN TRUE
       ELSE FALSE

\* a check made for another tool's identifier
isTargetedByRulesyncCommandAsCursor(rulesyncCommand) ==
    isTargetedByRulesyncCommandDefault(rulesyncCommand, "cursor")

\* CopilotCommand.isTargetedByRulesyncCommand(rulesyncCommand)
isTargetedByRulesyncCommand(rulesyncCommand) ==
    isTargetedByRulesyncCommandDefault(rulesyncCommand, "copilot")

(***************************************************************************)
(* The calls a run starts from.                                            *)
(***************************************************************************)
Pieces == {<<"a">>, DotMd, DotPromptMd}

RECURSIVE Names(_)
Names(n) ==
    IF n = 0 THEN {<<>>}
    ELSE Names(n - 1) \cup {p \o f : p \in Pieces, f \in Names(n - 1)}

FileNames == Names(MaxPieces) \ {<<>>}

APromptMd == <<"a">> \o DotPromptMd
AMd == <<"a">> \o DotMd

BaseDirs == {Dot, <<"t">>}

\* bodies handed to a constructor
DocBodies == {<<>>, <<" ", "x">>}

\* bodies found in a file
BodyChars == {" ", "x"}
RawBodies == UNION {[1..n -> BodyChars] : n \in 0..MaxBodyLen}

\* metadata handed to the CopilotCommand constructor, valid and invalid
CopilotFrontmatters ==
    {a @@ b @@ c @@ d :
        a \in OptField("mode", {Str("agent"), Str("invalid")}),
        b \in OptField("description", {Str(""), Str("Test"), Num}),
        c \in OptField("model", {Undefined, Str(""), Str("claude-haiku-4.5"), Num}),
        d \in OptField("extra", {Str("property")})}

PlainFrontmatter == ("mode" :> Str("agent")) @@ ("description" :> Str("Test"))

\* metadata a frontmatter block can hold
YamlFrontmatters ==
    {a @@ b @@ c @@ d :
        a \in OptField("mode", {Str("agent"), Str("invalid")}),
        b \in OptField("description", {Str(""), Str("Test"), Num}),
        c \in OptField("model", {Str(""), Str("claude-haiku-4.5"), Num}),
        d \in OptField("extra", {Str("property")})}

\* metadata of a canonical document
RulesyncFrontmatters ==
    {a @@ b @@ c :
        a \in OptField("targets",
                       {Undefined, Arr(<<>>), Arr(<<"*">>), Arr(<<"copilot">>),
                        Arr(<<"cursor">>), Arr(<<"cursor", "copilot", "cline">>)}),
        b \in OptField("description", {Str(""), Str("Test"), Num}),
        c \in OptField("copilot",
                       {Obj(EmptyObject), Obj("model" :> Str("")),
                        Obj("model" :> Str("claude-haiku-4.5")), Obj("model" :> Num)})}

ConstructRequest(fm, b, f, v) ==
    [op |-> "new",
     params |-> [frontmatter |-> fm, body |-> b, baseDir |-> <<"t">>,
                 relativeDirPath |-> GithubPrompts, relativeFilePath |-> f,
                 validate |-> v]]

ConstructRequests ==
    {ConstructRequest(fm, b, APromptMd, v) :
        fm \in CopilotFrontmatters, b \in DocBodies, v \in BOOLEAN}
    \cup {ConstructRequest(PlainFrontmatter, <<"x">>, f, TRUE) : f \in FileNames}

RulesyncRequest(fm, b, f) ==
    [op |-> "newRulesync",
     params |-> [frontmatter |-> fm, body |-> b, baseDir |-> <<"t">>,
                 relativeDirPath |-> RulesyncCommands, relativeFilePath |-> f,
                 fileContent |-> stringifyFrontmatter(b, fm), validate |-> FALSE]]

RulesyncRequests ==
    {RulesyncRequest(fm, b, AMd) : fm \in RulesyncFrontmatters, b \in DocBodies}
    \cup {RulesyncRequest(("targets" :> Arr(<<"copilot">>)) @@ ("description" :> Str("Test")),
                          <<"x">>, f) : f \in FileNames}

\* the disk: no file, or one file at a path
NoFile == [kind |-> "none", path |-> <<>>, frontmatter |-> EmptyObject, body |-> <<>>]
Unreadable(at) == [kind |-> "unreadable", path |-> at, frontmatter |-> EmptyObject, body |-> <<>>]
PlainText(at, b) == [kind |-> "plain", path |-> at, frontmatter |-> EmptyObject, body |-> b]
Markdown(at, fm, b) == [kind |-> "frontmatter", path |-> at, frontmatter |-> fm, body |-> b]

RelPaths ==
    {d \o f : d \in {<<>>, <<"s", "/">>, <<"s", "/", "u", "/">>}, f \in {APromptMd, AMd}}

\* where a tool file lies on the disk, and where it would lie without the
\* tool's directory
ToolPath(b, f) ==
    IF b = Dot THEN GithubPrompts \o <<"/">> \o f
    ELSE b \o <<"/">> \o GithubPrompts \o <<"/">> \o f
BarePath(b, f) == IF b = Dot THEN f ELSE b \o <<"/">> \o f

FromFileRequest(b, f, v, disk) ==
    [op |-> "fromFile",
     params |-> [baseDir |-> b, relativeFilePath |-> f, validate |-> v],
     disk |-> disk]

FromFileRequests ==
    UNION {{FromFileRequest(b, f, v, disk) :
               v \in BOOLEAN,
               disk \in {NoFile, Unreadable(ToolPath(b, f)),
                         PlainText(ToolPath(b, f), <<"x">>),
                         Markdown(ToolPath(b, f), PlainFrontmatter, <<"x">>),
                         Markdown(BarePath(b, f), PlainFrontmatter, <<"x">>)}} :
           b \in BaseDirs, f \in RelPaths}
    \cup {FromFileRequest(<<"t">>, <<"s", "/">> \o APromptMd, v,
                          Markdown(ToolPath(<<"t">>, <<"s", "/">> \o APromptMd),
                                   fm, <<"x", " ">>)) :
            v \in BOOLEAN, fm \in YamlFrontmatters}
    \cup {FromFileRequest(<<"t">>, APromptMd, TRUE,
                          Markdown(ToolPath(<<"t">>, APromptMd), PlainFrontmatter, b)) :
            b \in RawBodies}

NoRet == [op |-> "none", on |-> 0, status |-> "ok", value |-> 0]

(***************************************************************************)
(* The state: the call the run starts from (req), the documents made so    *)
(* far (docs), for each the document it was converted from or 0 (origin)   *)
(* and the validate flag it was made with (validated), and the last call   *)
(* with its outcome (ret).                                                 *)
(***************************************************************************)
Init ==
    /\ \/ req \in ConstructRequests
       \/ req \in RulesyncRequests
       \/ req \in FromFileRequests
    /\ docs = <<>>
    /\ origin = <<>>
    /\ validated = <<>>
    /\ ret = NoRet

\* a conversion that also writes the new file name into the document it
\* was called on
ReturnedRenamingReceiver(heap, on, r) ==
    IF r.status # "ok" THEN heap
    ELSE IF on = 0 THEN Append(heap, r.value)
    ELSE Append([heap EXCEPT ![on].relativeFilePath = r.value.relativeFilePath],
                r.value)

\* the documents after a call on document `on` (0: on none) came back with
\* r: `return new ...` adds a document and leaves the others as they are
Returned(heap, on, r) ==
    IF r.status = "ok" THEN Append(heap, r.value) ELSE heap

\* the outcome r of a call that makes a document from document `on` with
\* the validate flag v
Made(op, on, v, r) ==
    /\ docs' = Returned(docs, on, r)
    /\ origin' = IF r.status = "ok" THEN Append(origin, on) ELSE origin
    /\ validated' = IF r.status = "ok" THEN Append(validated, v) ELSE validated
    /\ ret' = [op |-> op, on |-> on, status |-> r.status,
               value |-> IF r.status = "ok" THEN Len(docs) + 1 ELSE r.value]
    /\ UNCHANGED req

\* the outcome of a call on document i that makes no document
Answered(op, i, x) ==
    /\ ret' = [op |-> op, on |-> i, status |-> "ok", value |-> x]
    /\ UNCHANGED <<req, docs, origin, validated>>

Construct ==
    /\ ret.op = "none"
    /\ req.op = "new"
    /\ Made("new", 0, req.params.validate, CopilotCommandConstructor(req.params))

NewRulesyncCommand ==
    /\ ret.op = "none"
    /\ req.op = "newRulesync"
    /\ Made("newRulesync", 0, req.params.validate, RulesyncCommandConstructor(req.params))

FromFile ==
    /\ ret.op = "none"
    /\ req.op = "fromFile"
    /\ Made("fromFile", 0, req.params.validate, fromFile(req.params, req.disk))

ToRulesyncCommand ==
    \E i \in 1..Len(docs) :
        /\ Len(docs) < MaxDocs
        /\ docs[i].kind = "copilot"
        /\ Made("toRulesyncCommand", i, TRUE, toRulesyncCommand(docs[i]))

FromRulesyncCommand ==
    \E i \in 1..Len(docs), b \in BaseDirs, v \in BOOLEAN :
        /\ Len(docs) < MaxDocs
        /\ docs[i].kind = "rulesync"
        /\ Made("fromRulesyncCommand", i, v,
                fromRulesyncCommand([baseDir |-> b, rulesyncCommand |-> docs[i],
                                     validate |-> v]))

IsTargetedByRulesyncCommand ==
    \E i \in 1..Len(docs) :
        /\ docs[i].kind = "rulesync"
        /\ Answered("isTargetedByRulesyncCommand", i, isTargetedByRulesyncCommand(docs[i]))

Validate ==
    \E i \in 1..Len(docs) :
        /\ docs[i].kind = "copilot"
        /\ Answered("validate", i, validate(docs[i]))

GetBody ==
    \E i \in 1..Len(docs) :
        /\ docs[i].kind = "copilot"
        /\ Answered("getBody", i, getBody(docs[i]))

GetFrontmatter ==
    \E i \in 1..Len(docs) :
        /\ docs[i].kind = "copilot"
        /\ Answered("getFrontmatter", i, getFrontmatter(docs[i]))

Next ==
    \/ Construct
    \/ NewRulesyncCommand
    \/ FromFile
    \/ ToRulesyncCommand
    \/ FromRulesyncCommand
    \/ IsTargetedByRulesyncCommand
    \/ Validate
    \/ GetBody
    \/ GetFrontmatter

Spec == Init /\ [][Next]_vars

(***************************************************************************)
(* Properties.                                                             *)
(***************************************************************************)
Range(q) == {q[i] : i \in 1..Len(q)}

\* document j was converted from a document
Converted(j) == j \in 1..Len(docs) /\ origin[j] # 0

\* metadata as the claims describe valid metadata: mode "agent", a string
\* description, model absent or a string, and nothing else
PlainValid(m) ==
    /\ DOMAIN m \subseteq SchemaKeys
    /\ "mode" \in DOMAIN m /\ m["mode"] = Str("agent")
    /\ "description" \in DOMAIN m /\ m["description"].t = "string"
    /\ "model" \in DOMAIN m => m["model"].t = "string"

\* metadata the claims call invalid: mode missing or not "agent",
\* description missing or not a string, model holding something that is
\* not a string
NamedInvalid(m) ==
    \/ "mode" \notin DOMAIN m
    \/ m["mode"] # Str("agent")
    \/ "description" \notin DOMAIN m
    \/ m["description"].t # "string"
    \/ ("model" \in DOMAIN m /\ m["model"].t \notin {"string", "undefined"})

\* C1: for every schema-valid copilot metadata M, converting a document of M
\* to the canonical form and back yields metadata equal to M: the same mode
\* and description, and the model M has (or none when M has none).  Here a
\* key holding undefined counts as no model, as toEqual reads it.
C1_RoundTripRestoresMetadata ==
    \A k \in 1..Len(docs) :
        (/\ Converted(k) /\ Converted(origin[k])
         /\ docs[k].kind = "copilot"
         /\ PlainValid(docs[origin[origin[k]]].frontmatter))
        => \A key \in SchemaKeys :
               Get(docs[k].frontmatter, key)
                   = Get(docs[origin[origin[k]]].frontmatter, key)

\* C2: the constructor throws for every metadata that fails the schema
\* when validate is true, and never throws, whatever the metadata, when
\* validate is false.
C2_ConstructorThrowsOnlyWhenValidating ==
    ret.op = "new" =>
        /\ (req.params.validate /\ NamedInvalid(req.params.frontmatter))
               => (ret.status = "throw" /\ docs = <<>>)
        /\ ~req.params.validate
               => /\ ret.status = "ok"
                  /\ Len(docs) = 1
                  /\ docs[1].frontmatter = req.params.frontmatter

\* C2 happens: a validating constructor rejected metadata whose model is
\* not a string.
C2_Witness ==
    /\ ret.op = "new"
    /\ req.params.validate
    /\ Get(req.params.frontmatter, "model") = Num
    /\ Get(req.params.frontmatter, "mode") = Str("agent")
    /\ Get(req.params.frontmatter, "description") = Str("Test")
    /\ ret.status = "throw"

\* C3: the canonical frontmatter toRulesyncCommand produces has a copilot
\* block if and only if the source metadata has a model, the block is
\* exactly {model: <the source model>}, and without a model there is no
\* copilot key.  Stated for schema-valid sources; a key holding undefined
\* counts as no model.
C3_CopilotBlockIffModel ==
    \A j \in 1..Len(docs) :
        (/\ Converted(j)
         /\ docs[j].kind = "rulesync"
         /\ CopilotCommandFrontmatterSchema(docs[origin[j]].frontmatter))
        => LET model == Get(docs[origin[j]].frontmatter, "model")
           IN /\ ("copilot" \in DOMAIN docs[j].frontmatter) <=> (model # Undefined)
              /\ "copilot" \in DOMAIN docs[j].frontmatter
                     => docs[j].frontmatter["copilot"] = Obj("model" :> model)

\* C4: toRulesyncCommand always yields a canonical document, whose targets
\* is exactly ["*"], whose description is the source's description and
\* whose body is the source's body unchanged.
C4_ToRulesyncCommandCopies ==
    /\ ret.op = "toRulesyncCommand" => ret.status = "ok"
    /\ \A j \in 1..Len(docs) :
           (Converted(j) /\ docs[j].kind = "rulesync")
           => /\ "targets" \in DOMAIN docs[j].frontmatter
              /\ docs[j].frontmatter["targets"] = Arr(<<"*">>)
              /\ "description" \in DOMAIN docs[j].frontmatter
              /\ docs[j].frontmatter["description"]
                     = Get(docs[origin[j]].frontmatter, "description")
              /\ docs[j].body = docs[origin[j]].body

\* C4 happens: a document with a model and a body that starts with a blank
\* was converted.
C4_Witness ==
    \E j \in 1..Len(docs) :
        /\ Converted(j)
        /\ docs[j].kind = "rulesync"
        /\ docs[origin[j]].body = <<" ", "x">>
        /\ docs[origin[j]].frontmatter
               = ("mode" :> Str("agent")) @@ ("description" :> Str("Test"))
                 @@ ("model" :> Str("claude-haiku-4.5"))
        /\ ret.op = "toRulesyncCommand"

\* C5: fromRulesyncCommand yields a document whose mode is "agent", whose
\* description and body are the canonical document's, whose directory is
\* .github/prompts, and whose model is the canonical copilot.model when
\* there is one; otherwise the metadata has no model key.  Stated for
\* canonical documents with a targets array and a string description.
C5_FromRulesyncCommandLeavesModelUnset ==
    \A k \in 1..Len(docs) :
        (/\ Converted(k)
         /\ docs[k].kind = "copilot"
         /\ Get(docs[origin[k]].frontmatter, "targets").t = "array"
         /\ Get(docs[origin[k]].frontmatter, "description").t = "string")
        => LET c == docs[origin[k]]
               model == OptGet(Get(c.frontmatter, "copilot"), "model")
           IN /\ Get(docs[k].frontmatter, "mode") = Str("agent")
              /\ Get(docs[k].frontmatter, "description") = Get(c.frontmatter, "description")
              /\ docs[k].body = c.body
              /\ docs[k].relativeDirPath = GithubPrompts
              /\ IF model # Undefined
                 THEN Get(docs[k].frontmatter, "model") = model
                 ELSE "model" \notin DOMAIN docs[k].frontmatter

\* what is left of f without the suffix it ends in
Stem(f, suf) == SubSeq(f, 1, Len(f) - Len(suf))

\* C6: toRulesyncCommand maps s + ".prompt.md" to s + ".md",
\* fromRulesyncCommand maps s + ".md" to s + ".prompt.md", and on these
\* names each rewrite undoes the other.
C6_SuffixRewritesAreInverse ==
    \A j \in 1..Len(docs) :
        Converted(j) =>
            LET f == docs[origin[j]].relativeFilePath
                g == docs[j].relativeFilePath
            IN /\ (docs[j].kind = "rulesync" /\ EndsWith(f, DotPromptMd))
                      => g = Stem(f, DotPromptMd) \o DotMd
               /\ (docs[j].kind = "copilot" /\ EndsWith(f, DotMd))
                      => g = Stem(f, DotMd) \o DotPromptMd
               /\ (/\ Converted(origin[j])
                   /\ EndsWith(docs[origin[origin[j]]].relativeFilePath,
                               IF docs[j].kind = "copilot" THEN DotPromptMd ELSE DotMd))
                      => g = docs[origin[origin[j]]].relativeFilePath

\* C6 happens: a name whose stem itself ends in ".prompt.md" went to the
\* canonical form and back.
C6_Witness ==
    \E k \in 1..Len(docs) :
        /\ Converted(k) /\ Converted(origin[k])
        /\ docs[k].kind = "copilot"
        /\ docs[origin[origin[k]]].relativeFilePath = DotPromptMd \o DotPromptMd
        /\ docs[origin[k]].relativeFilePath = DotPromptMd \o DotMd
        /\ docs[k].relativeFilePath = DotPromptMd \o DotPromptMd

\* C7: both rewrites change only a suffix at the very end of the name: a
\* name that does not end in the suffix comes back unchanged, and in a name
\* that does, everything before the trailing suffix is left as it was.
C7_RewritesTouchOnlyTheEnd ==
    \A j \in 1..Len(docs) :
        Converted(j) =>
            LET f == docs[origin[j]].relativeFilePath
                g == docs[j].relativeFilePath
                suf == IF docs[j].kind = "rulesync" THEN DotPromptMd ELSE DotMd
                rep == IF docs[j].kind = "rulesync" THEN DotMd ELSE DotPromptMd
            IN IF EndsWith(f, suf)
               THEN /\ Len(g) = Len(f) - Len(suf) + Len(rep)
                    /\ \A i \in 1..(Len(f) - Len(suf)) : g[i] = f[i]
                    /\ EndsWith(g, rep)
               ELSE g = f

\* C7 happens: a name holding ".prompt.md" before its end, and not at its
\* end, was converted and came back as it was.
C7_Witness ==
    \E j \in 1..Len(docs) :
        /\ Converted(j)
        /\ docs[j].kind = "rulesync"
        /\ docs[origin[j]].relativeFilePath = DotPromptMd \o <<"a">>
        /\ docs[j].relativeFilePath = DotPromptMd \o <<"a">>

\* C8: isTargetedByRulesyncCommand is true exactly when targets is
\* undefined, holds "*" or holds "copilot", and false for every other
\* targets array.
C8_TargetedExactly ==
    ret.op = "isTargetedByRulesyncCommand" =>
        LET targets == Get(docs[ret.on].frontmatter, "targets")
        IN ret.value <=> \/ targets = Undefined
                         \/ /\ targets.t = "array"
                            /\ {"*", "copilot"} \cap Range(targets.v) # {}

\* C8 happens: a canonical document targeting cursor alone was asked about
\* and the answer was false.
C8_Witness ==
    /\ ret.op = "isTargetedByRulesyncCommand"
    /\ Get(docs[ret.on].frontmatter, "targets") = Arr(<<"cursor">>)
    /\ ret.value = FALSE

\* C9: fromFile rejects, and yields no document, whenever the file is
\* missing or unreadable, has no frontmatter block, or has frontmatter that
\* fails the schema.
C9_FromFileRejects ==
    (/\ ret.op = "fromFile"
     /\ \/ req.disk.kind \in {"none", "unreadable", "plain"}
        \/ req.disk.path # ToolPath(req.params.baseDir, req.params.relativeFilePath)
        \/ NamedInvalid(req.disk.frontmatter))
    => (ret.status = "throw" /\ docs = <<>>)

\* C9 happens: a file with frontmatter that lacks the mode was read with
\* validate false, and was rejected.
C9_Witness ==
    /\ ret.op = "fromFile"
    /\ ~req.params.validate
    /\ req.disk.kind = "frontmatter"
    /\ req.disk.path = ToolPath(req.params.baseDir, req.params.relativeFilePath)
    /\ req.disk.frontmatter = ("description" :> Str("Test"))
    /\ ret.status = "throw"

\* s is t with blanks added at its ends, and t has no blank at its ends
TrimmedOf(t, s) ==
    /\ \E i \in 0..Len(s), j \in 0..Len(s) :
           /\ i + j <= Len(s)
           /\ t = SubSeq(s, i + 1, Len(s) - j)
           /\ \A h \in 1..i : s[h] \in WhiteSpace
           /\ \A h \in (Len(s) - j + 1)..Len(s) : s[h] \in WhiteSpace
    /\ t # <<>> => (t[1] \notin WhiteSpace /\ t[Len(t)] \notin WhiteSpace)

\* n is the last component of the path p
LastComponentOf(n, p) ==
    /\ "/" \notin Range(n)
    /\ EndsWith(p, n)
    /\ Len(n) < Len(p) => p[Len(p) - Len(n)] = "/"

\* C10 as stated: when the file exists with schema-valid frontmatter,
\* fromFile returns a document whose metadata equals the parsed
\* frontmatter.
C10_FromFileKeepsParsedFrontmatter ==
    (ret.op = "fromFile" /\ ret.status = "ok")
    => docs[1].frontmatter = req.disk.frontmatter

\* C10 amended: when the file at baseDir/.github/prompts/relativeFilePath
\* exists with schema-valid frontmatter, fromFile returns a document whose
\* metadata is the parsed frontmatter's mode, description and model (any
\* other field of the frontmatter is dropped), whose body is the parsed
\* body without its leading and trailing whitespace, whose directory is
\* .github/prompts, and whose file name is the base name of
\* relativeFilePath.
C10_FromFileBuildsDocument ==
    (/\ ret.op = "fromFile"
     /\ req.disk.kind = "frontmatter"
     /\ req.disk.path = ToolPath(req.params.baseDir, req.params.relativeFilePath)
     /\ ~NamedInvalid(req.disk.frontmatter))
    => /\ ret.status = "ok"
       /\ Len(docs) = 1
       /\ docs[1].kind = "copilot"
       /\ DOMAIN docs[1].frontmatter = DOMAIN req.disk.frontmatter \cap SchemaKeys
       /\ \A key \in DOMAIN docs[1].frontmatter :
              docs[1].frontmatter[key] = req.disk.frontmatter[key]
       /\ TrimmedOf(docs[1].body, req.disk.body)
       /\ docs[1].relativeDirPath = GithubPrompts
       /\ LastComponentOf(docs[1].relativeFilePath, req.params.relativeFilePath)
       /\ docs[1].baseDir = req.params.baseDir

\* C10 happens: a file in a subdirectory, with a model, an unknown field
\* and a body with whitespace after its text, was loaded.
C10_Witness ==
    /\ ret.op = "fromFile"
    /\ ret.status = "ok"
    /\ "extra" \in DOMAIN req.disk.frontmatter
    /\ "model" \in DOMAIN req.disk.frontmatter
    /\ req.disk.body = <<"x", " ">>
    /\ docs[1].body = <<"x">>
    /\ req.params.relativeFilePath = <<"s", "/">> \o APromptMd
    /\ docs[1].relativeFilePath = APromptMd

C12_ExtraFieldsAccepted ==
    /\ (/\ ret.op = "validate"
        /\ "extra" \in DOMAIN docs[ret.on].frontmatter
        /\ ~NamedInvalid(docs[ret.on].frontmatter))
       => ret.value.success = TRUE
    /\ (/\ ret.op = "new"
        /\ req.params.validate
        /\ "extra" \in DOMAIN req.params.frontmatter
        /\ ~NamedInvalid(req.params.frontmatter))
       => /\ ret.status = "ok"
          /\ Len(docs) = 1
          /\ "extra" \in DOMAIN docs[1].frontmatter

\* C12 happens: a document constructed with validation from metadata with
\* an extra field was validated again, with success.
C12_Witness ==
    /\ ret.op = "validate"
    /\ req.op = "new"
    /\ ret.on = 1
    /\ validated[1]
    /\ docs[1].frontmatter
           = ("mode" :> Str("agent")) @@ ("description" :> Str("Test"))
             @@ ("extra" :> Str("property"))
    /\ ret.value.success = TRUE

\* C13: in every reachable state, every CopilotCommand made with validate
\* true (by the constructor, fromRulesyncCommand or fromFile) holds metadata
\* that satisfies the schema: mode "agent", a string description, model
\* absent or a string.
C13_ValidatedDocumentsSatisfySchema ==
    \A i \in 1..Len(docs) :
        (docs[i].kind = "copilot" /\ validated[i])
        => ~NamedInvalid(docs[i].frontmatter)

\* C13 happens: validated documents from the constructor and from
\* fromRulesyncCommand stand side by side.
C13_Witness ==
    /\ Len(docs) = 3
    /\ req.op = "new"
    /\ validated[1] /\ validated[3]
    /\ docs[3].kind = "copilot"
    /\ origin[3] = 2

\* C14: no operation changes an existing document: every step leaves the
\* metadata, body and path of each document made so far, copilot or
\* canonical, as they were; a conversion only adds a document.
C14_DocumentsNeverChange ==
    [][/\ Len(docs') >= Len(docs)
       /\ \A i \in 1..Len(docs) : docs'[i] = docs[i]]_vars

\* C14 happens: a copilot document was converted to the canonical form,
\* that one was converted back, and the first document was then asked for
\* its metadata.
C14_Witness ==
    /\ Len(docs) = 3
    /\ docs[1].kind = "copilot"
    /\ origin[2] = 1
    /\ origin[3] = 2
    /\ docs[1].relativeFilePath = APromptMd
    /\ ret.op = "getFrontmatter"
    /\ ret.on = 1
    /\ ret.value = docs[1].frontmatter

\* C15: fromFile checks the parsed frontmatter itself, before it constructs
\* the document and whatever the validate flag is: frontmatter that fails
\* the schema is rejected with fromFile's own error, which names the path
\* that was read, and every document fromFile returns holds metadata that
\* satisfies the schema.
C15_FromFileChecksSchemaItself ==
    ret.op = "fromFile" =>
        LET filePath == ToolPath(req.params.baseDir, req.params.relativeFilePath)
        IN /\ (/\ req.disk.kind = "frontmatter"
                /\ req.disk.path = filePath
                /\ NamedInvalid(req.disk.frontmatter))
               => /\ ret.status = "throw"
                  /\ ret.value = Threw("Invalid frontmatter", filePath).value
                  /\ docs = <<>>
           /\ ret.status = "ok"
               => /\ CopilotCommandFrontmatterSchema(docs[1].frontmatter)
                  /\ ~NamedInvalid(docs[1].frontmatter)
                  /\ validate(docs[1]).success

\* C15 happens: a file in a subdirectory whose frontmatter has a mode other
\* than "agent" was read with validate false, and was rejected.
C15_Witness ==
    /\ ret.op = "fromFile"
    /\ ~req.params.validate
    /\ req.disk.kind = "frontmatter"
    /\ req.disk.path = ToolPath(req.params.baseDir, req.params.relativeFilePath)
    /\ req.disk.frontmatter = ("mode" :> Str("invalid")) @@ ("description" :> Str("Test"))
    /\ req.params.relativeFilePath = <<"s", "/">> \o APromptMd
    /\ ret.status = "throw"
    /\ docs = <<>>

\* C16: for every canonical document C whose file name ends in ".md", the
\* document fromRulesyncCommand(C).toRulesyncCommand() has C's description,
\* body and file name and C's copilot.model when that is not empty, and its
\* targets are ["*"] whatever C's were; fromRulesyncCommand does not look
\* at C's targets: it throws only when it validates metadata that fails
\* the schema, and so makes a document from C also when C is not targeted.
C16_CanonicalRoundTripResetsTargets ==
    /\ \A k \in 1..Len(docs) :
           (/\ Converted(k) /\ Converted(origin[k])
            /\ docs[k].kind = "rulesync"
            /\ EndsWith(docs[origin[origin[k]]].relativeFilePath, DotMd))
           => LET c == docs[origin[origin[k]]]
                  model == OptGet(Get(c.frontmatter, "copilot"), "model")
              IN /\ Get(docs[k].frontmatter, "description")
                        = Get(c.frontmatter, "description")
                 /\ docs[k].body = c.body
                 /\ docs[k].relativeFilePath = c.relativeFilePath
                 /\ Truthy(model)
                        => OptGet(Get(docs[k].frontmatter, "copilot"), "model") = model
                 /\ Get(docs[k].frontmatter, "targets") = Arr(<<"*">>)
    /\ ret.op = "fromRulesyncCommand"
           => LET c == docs[ret.on]
                  model == OptGet(Get(c.frontmatter, "copilot"), "model")
                  fits == /\ Get(c.frontmatter, "description").t = "string"
                          /\ model.t \in {"string", "undefined"}
              IN /\ ret.status = "throw"
                     => (~fits /\ ret.value.message = "Invalid frontmatter")
                 /\ (ret.status = "ok" /\ ~fits) => ~validated[ret.value]

\* C16 happens: a canonical document that targets another tool only, with a
\* copilot model, was converted to a copilot document and back.
C16_Witness ==
    /\ Len(docs) = 3
    /\ origin[2] = 1
    /\ origin[3] = 2
    /\ docs[3].kind = "rulesync"
    /\ docs[1].relativeFilePath = AMd
    /\ Get(docs[1].frontmatter, "targets") = Arr(<<"cursor">>)
    /\ ~isTargetedByRulesyncCommand(docs[1])
    /\ OptGet(Get(docs[1].frontmatter, "copilot"), "model") = Str("claude-haiku-4.5")
    /\ Get(docs[3].frontmatter, "targets") = Arr(<<"*">>)
    /\ ret.op = "toRulesyncCommand"

====
